---- MODULE Spec2Model ----
(***************************************************************************)
(* Model of the Bright Data snapshot client of wykra-api-python:            *)
(* app/services/brightdata.py (fetch_instagram_profile and its helpers),    *)
(* the settings of app/core/config.py, the InstagramProfile model of        *)
(* app/models/instagram.py and the route of app/api/routes/instagram.py.    *)
(*                                                                         *)
(* One call of the route is modelled as a sequential process.  Its program  *)
(* counter pc advances at the await points of the coroutine; the provider   *)
(* (the HTTP responses) is the environment and is chosen with \E.           *)
(* SpecPair runs two such calls as tasks of one event loop.                 *)
(***************************************************************************)
EXTENDS Naturals, Sequences, FiniteSets, TLC

VARIABLES
    settings,     \* app.core.config.Settings, read by brightdata.py:11
    username,     \* the route's query parameter `profile`
    pc,           \* position of the call
    session,      \* the httpx.AsyncClient of brightdata.py:45: none, open, closed
    resp,         \* the local `resp` of the running helper, from the response
                  \* to the end of the pass that reads it
    snapshot_id,  \* the local `snapshot_id`
    attempt,      \* the loop variable `attempt` of the running helper
    last_status,  \* the local `last_status` of _wait_for_snapshot_ready
    raw_profile,  \* the local `raw_profile` of fetch_instagram_profile
    result,       \* what fetch_instagram_profile returned or raised
    route,        \* what the route did with it
    log,          \* history: the session events, requests and sleeps, in order
    polls,        \* history: the status read by each progress poll, in order
    other,        \* the frame of the call that is suspended, if there is one
    me            \* which call is running: 1 or 2

vars == <<settings, username, pc, session, resp, snapshot_id, attempt,
          last_status, raw_profile, result, route, log, polls, other, me>>

----------------------------------------------------------------------------
(* Bounds of the model.                                                     *)

\* largest brightdata_max_wait_time explored
MaxWait == 3
\* largest brightdata_poll_interval explored
MaxInterval == 2

----------------------------------------------------------------------------
(* Python values.  A JSON object is a record over a fixed set of keys; a    *)
(* key the object does not have holds Absent, a key holding JSON null holds *)
(* Null.  Python's None is written None.                                    *)

Absent == "<absent>"
Null == "<null>"
None == "<None>"
\* Python's True, False and the integer 0, as opposed to strings
PyTrue == "<True>"
PyFalse == "<False>"
PyZero == "<0>"

\* dict.get(key): None for a missing key, the value otherwise (null is None)
Get(obj, key) == IF obj[key] \in {Absent, Null} THEN None ELSE obj[key]

\* dict.get(key, default): the default only for a missing key
GetDefault(obj, key, default) ==
    IF obj[key] = Absent THEN default
    ELSE IF obj[key] = Null THEN None ELSE obj[key]

\* Python truth value
Truthy(v) == v \notin {None, Absent, Null, "", PyFalse, PyZero}

\* Python's `a or b`
Or(a, b) == IF Truthy(a) THEN a ELSE b

----------------------------------------------------------------------------
(* Settings (app/core/config.py).                                           *)

Tokens == {None, "", "tok"}
DatasetIds == {None, "", "ds"}

SettingsSet ==
    [brightdata_api_token : Tokens,
     brightdata_instagram_dataset_id : DatasetIds,
     brightdata_poll_interval : 0..MaxInterval,
     brightdata_max_wait_time : 0..MaxWait]

\* brightdata.py:32-35, the condition of the configuration check
NotConfiguredTokenOnly(s) == ~Truthy(s.brightdata_api_token)
NotConfigured(s) ==
    \/ ~Truthy(s.brightdata_api_token)
    \/ ~Truthy(s.brightdata_instagram_dataset_id)

\* brightdata.py:40-43, the Authorization header
Headers(s) == <<"Bearer", s.brightdata_api_token>>

Usernames == {"ALICE", "carol"}

----------------------------------------------------------------------------
(* History events.                                                          *)

Event(ev, id, auth, dur) == [ev |-> ev, id |-> id, auth |-> auth, dur |-> dur]
EvOpen == Event("open", "", <<>>, 0)
EvClose == Event("close", "", <<>>, 0)
EvSleep(d) == Event("sleep", "", <<>>, d)
EvTrigger(h) == Event("trigger", "", h, 0)
EvProgress(id, h) == Event("progress", id, h, 0)
EvSnapshotBare(id, h) == Event("snapshot", id, <<>>, 0)
EvSnapshot(id, h) == Event("snapshot", id, h, 0)

----------------------------------------------------------------------------
(* Outcomes of fetch_instagram_profile.                                     *)

NoData == [shape |-> "none"]
NoResult == [kind |-> "none", exc |-> "", err |-> "", data |-> NoData, status |-> None]

\* raise BrightDataError(...): err names the raise site, data and status are
\* the values formatted into the message
BDError(err, data, status) ==
    [kind |-> "error", exc |-> "BrightDataError", err |-> err,
     data |-> data, status |-> status]

\* an exception of another class raised by a library call or an attribute access
Other(exc) ==
    [kind |-> "error", exc |-> exc, err |-> "", data |-> NoData, status |-> None]

----------------------------------------------------------------------------
(* HTTP responses.  A response is a status code and a body; a body is a     *)
(* shape and the items it holds: an object is its own single item, a list   *)
(* holds its elements, the other shapes hold nothing.                       *)

\* httpx.Response.raise_for_status raises unless the code is a success code
IsSuccessOrServerError(code) == code \in 200..299 \/ code >= 500
IsSuccess(code) == code \in 200..299

Body(shape, items) == [shape |-> shape, items |-> items]
BadJson == Body("badjson", <<>>)
JsonNull == Body("null", <<>>)
EmptyList == Body("list", <<>>)
\* a non-empty list whose first element is a string, not an object
ScalarList == Body("list_scalar", <<>>)
\* a non-zero JSON number, a non-empty string or true at the top level
JsonScalar == Body("scalar", <<>>)

Response(code, body) == [code |-> code, body |-> body]
NoResp == Response(0, Body("none", <<>>))

\* isinstance(data, dict)
IsDict(data) == data.shape = "obj"
\* isinstance(data, list) and data   (a non-empty list)
IsNonEmptyList(data) ==
    \/ data.shape = "list" /\ Len(data.items) > 0
    \/ data.shape = "list_scalar"

----------------------------------------------------------------------------
(* _trigger_snapshot (brightdata.py:71-119).                                *)

TriggerKeys == <<"snapshot_id", "snapshot", "id", "job_id", "snapshotId">>

TriggerObjs ==
    [snapshot_id : {Absent, Null, "", "sd_1"},
     snapshot : {Absent, "sd_1", "sd_2"},
     id : {Absent, "sd_2"},
     job_id : {Absent, "sd_2"},
     snapshotId : {Absent, "sd_2"}]

TriggerBodies ==
    {Body("obj", <<o>>) : o \in TriggerObjs}
        \cup {Body("list", <<o>>) : o \in TriggerObjs}
        \cup {BadJson, JsonNull, EmptyList}

TriggerResponses ==
    {Response(200, b) : b \in TriggerBodies} \cup {Response(500, BadJson)}

\* brightdata.py:114, snapshot_id = data.get("snapshot_id")
TriggerIdAnyKey(data) ==
    LET o == data.items[1]
        hit == {i \in 1..Len(TriggerKeys) : Truthy(Get(o, TriggerKeys[i]))}
    IN  IF hit = {} THEN None
        ELSE Get(o, TriggerKeys[CHOOSE i \in hit : \A j \in hit : i <= j])
TriggerIdSnapshotKey(data) == Get(data.items[1], "snapshot")
TriggerId(data) == Get(data.items[1], "snapshot_id")

----------------------------------------------------------------------------
(* _wait_for_snapshot_ready (brightdata.py:122-188).                        *)

\* brightdata.py:141, max_attempts = max_wait_time // interval (interval > 0)
MaxAttemptsAtLeastOne(s) ==
    IF s.brightdata_max_wait_time < s.brightdata_poll_interval THEN 1
    ELSE s.brightdata_max_wait_time \div s.brightdata_poll_interval
MaxAttemptsCeil(s) ==
    (s.brightdata_max_wait_time + s.brightdata_poll_interval - 1)
        \div s.brightdata_poll_interval
MaxAttempts(s) == s.brightdata_max_wait_time \div s.brightdata_poll_interval

ProgressObjs ==
    [status : {Absent, "", "building", "ready", "completed", "done",
               "failed", "error"},
     state : {Absent, "ready", "error"}]

ProgressBodies ==
    {Body("obj", <<o>>) : o \in ProgressObjs}
        \cup {BadJson, JsonNull, EmptyList, ScalarList, JsonScalar}

ProgressResponses ==
    {Response(200, b) : b \in ProgressBodies} \cup {Response(500, BadJson)}

\* brightdata.py:178 and 182, the terminal statuses
ReadyStatusesLoose == {"ready", "completed", "done", "building"}
ReadyStatuses == {"ready", "completed", "done"}
FailedStatuses == {"failed", "error"}

\* brightdata.py:175, status = (data or {}).get("status") or (data or {}).get("state")
\* for a body that is an object, None/null or an empty list
ProgressStatusNoState(data) ==
    IF IsDict(data) THEN Get(data.items[1], "status") ELSE None
ProgressStatus(data) ==
    IF IsDict(data)
    THEN Or(Get(data.items[1], "status"), Get(data.items[1], "state"))
    ELSE None

----------------------------------------------------------------------------
(* _fetch_snapshot_profile (brightdata.py:191-280).                         *)

\* brightdata.py:214, max_attempts = 5
FetchMaxAttemptsSix == 5 + 1
FetchMaxAttempts == 5

(* A message is the sequence of its words.  str.lower() maps every word to  *)
(* its lower-case form; `"not ready yet" in message` looks for the phrase   *)
(* as consecutive words.                                                    *)
MsgAbsent == <<Absent>>
MsgNull == <<Null>>
MsgNotReady == <<"Snapshot", "is", "Not", "Ready", "Yet">>

LowerWord(w) ==
    CASE w = "Snapshot" -> "snapshot"
      [] w = "Not" -> "not"
      [] w = "Ready" -> "ready"
      [] w = "Yet" -> "yet"
      [] w = "None" -> "none"
      [] w = "YES" -> "yes"
      [] w = "ALICE" -> "alice"
      [] OTHER -> w
Lower(m) == [i \in DOMAIN m |-> LowerWord(m[i])]

NotReadyPhrase == <<"not", "ready", "yet">>
Contains(m, phrase) ==
    \E i \in 1..Len(m) :
        /\ i + Len(phrase) - 1 <= Len(m)
        /\ SubSeq(m, i, i + Len(phrase) - 1) = phrase

\* brightdata.py:250, str(data.get("message", "")).lower()
MessageOf(o) ==
    Lower(IF o.message = MsgAbsent THEN <<>>
          ELSE IF o.message = MsgNull THEN <<"None">>
          ELSE o.message)

\* brightdata.py:252, the body says the snapshot is still building
IsBuilding(o) ==
    \/ Get(o, "status") \in {"building"}
    \/ Contains(MessageOf(o), NotReadyPhrase)

\* brightdata.py:258-262, the object carries a profile-indicator field
HasIndicatorAccountOnly(o) == Truthy(Get(o, "account"))
HasIndicator(o) ==
    \/ Truthy(Get(o, "account"))
    \/ Truthy(Get(o, "profile_name"))
    \/ Truthy(Get(o, "full_name"))

SnapshotObjs ==
    [status : {Absent, "building"},
     message : {MsgAbsent, MsgNotReady},
     account : {Absent, "", "alice"},
     profile_name : {Absent, "Alice"},
     full_name : {Absent, "Alice A"},
     followers : {Absent, "100", "abc"},
     following : {Absent},
     posts_count : {Absent},
     is_verified : {Absent},
     is_business_account : {Absent},
     is_professional_account : {Absent},
     biography : {Absent},
     profile_url : {Absent},
     url : {Absent}]

\* records that exercise the typed fields of the profile, one field at a time
RowAlice ==
    [status |-> Absent, message |-> MsgAbsent, account |-> "alice",
     profile_name |-> Absent, full_name |-> Absent, followers |-> Absent,
     following |-> Absent, posts_count |-> Absent, is_verified |-> Absent,
     is_business_account |-> Absent, is_professional_account |-> Absent,
     biography |-> Absent, profile_url |-> Absent, url |-> Absent]
RowBob == [RowAlice EXCEPT !.account = "bob"]

IntValues == {Null, "42", "42.0", "", "abc"}
BoolValues == {Null, PyTrue, PyFalse, PyZero, "true", "YES", "no", "maybe"}
UrlValues == {Null, "https://instagram.com/alice", "not a url"}

TypedObjs ==
    {[RowAlice EXCEPT ![k] = v] :
        k \in {"followers", "following", "posts_count"}, v \in IntValues}
    \cup {[RowAlice EXCEPT ![k] = v] :
        k \in {"is_verified", "is_business_account", "is_professional_account"},
        v \in BoolValues}
    \cup {[RowAlice EXCEPT ![k] = v] : k \in {"profile_url", "url"}, v \in UrlValues}
    \cup {[RowAlice EXCEPT !.biography = v] : v \in {Null, "", "hello"}}

\* a list of two records, in both orders
TwoRowBodies ==
    {Body("list", <<RowAlice, RowBob>>), Body("list", <<RowBob, RowAlice>>)}

SnapshotBodies ==
    {Body("obj", <<o>>) : o \in SnapshotObjs \cup TypedObjs}
        \cup {Body("list", <<o>>) : o \in {x \in SnapshotObjs : x.followers = Absent}}
        \cup TwoRowBodies
        \cup {BadJson, JsonNull, EmptyList, ScalarList, JsonScalar}

SnapshotResponses ==
    {Response(200, b) : b \in SnapshotBodies}
        \cup {Response(202, BadJson), Response(500, BadJson)}

\* brightdata.py:241, profile = data[0]
FirstRecord(data) == data.items[1]

\* brightdata.py:269-273, data that is neither a non-empty list nor a dict is
\* logged as "empty or invalid JSON structure" and the pass goes on to the sleep
EmptyOrInvalidRaises(r) ==
    [do |-> "raise", e |-> BDError("UnexpectedPayload", r.body, None)]
EmptyOrInvalid(r) == [do |-> "retry"]

\* what one pass of the loop body (brightdata.py:226-267) does with a response
FetchStep(r) ==
    IF r.code = 202 THEN [do |-> "retry"]
    ELSE IF ~IsSuccess(r.code)
    THEN [do |-> "raise", e |-> BDError("FetchError", NoData, None)]
    ELSE IF r.body.shape = "badjson"
    THEN [do |-> "raise", e |-> Other("JSONDecodeError")]
    ELSE IF IsNonEmptyList(r.body)
    THEN IF r.body.shape = "list_scalar"
         THEN [do |-> "raise", e |-> BDError("FirstItemNotObject", r.body, None)]
         ELSE [do |-> "return", rec |-> FirstRecord(r.body)]
    ELSE IF IsDict(r.body)
    THEN IF IsBuilding(r.body.items[1]) THEN [do |-> "retry"]
         ELSE IF HasIndicator(r.body.items[1])
         THEN [do |-> "return", rec |-> r.body.items[1]]
         ELSE [do |-> "raise", e |-> BDError("UnexpectedPayload", r.body, None)]
    ELSE EmptyOrInvalid(r)

----------------------------------------------------------------------------
(* InstagramProfile (models/instagram.py:5-15) built at brightdata.py:50-65. *)

\* pydantic's validation of an Optional[int] field: None stays None, a string
\* that is an integer, or an integer followed by ".0", becomes the number,
\* any other string is a validation error
IntField(v) ==
    IF v = None THEN [ok |-> TRUE, null |-> TRUE, n |-> 0]
    ELSE IF v = "100" THEN [ok |-> TRUE, null |-> FALSE, n |-> 100]
    ELSE IF v \in {"42", "42.0"} THEN [ok |-> TRUE, null |-> FALSE, n |-> 42]
    ELSE [ok |-> FALSE, null |-> TRUE, n |-> 0]

\* pydantic's validation of an Optional[bool] field: None stays None, a bool
\* stays, 0 is false, the strings true/yes and false/no are accepted in any
\* case, any other string is a validation error
BoolField(v) ==
    IF v = None THEN [ok |-> TRUE, null |-> TRUE, b |-> FALSE]
    ELSE IF v = PyTrue \/ LowerWord(v) \in {"true", "yes"}
    THEN [ok |-> TRUE, null |-> FALSE, b |-> TRUE]
    ELSE IF v \in {PyFalse, PyZero} \/ LowerWord(v) \in {"false", "no"}
    THEN [ok |-> TRUE, null |-> FALSE, b |-> FALSE]
    ELSE [ok |-> FALSE, null |-> TRUE, b |-> FALSE]

\* pydantic's validation of an Optional[HttpUrl] field
UrlField(v) ==
    IF v = None THEN [ok |-> TRUE, null |-> TRUE, url |-> ""]
    ELSE IF v = "https://instagram.com/alice"
    THEN [ok |-> TRUE, null |-> FALSE, url |-> v]
    ELSE [ok |-> FALSE, null |-> TRUE, url |-> ""]

\* brightdata.py:52-64, the arguments of InstagramProfile(...) but the first
ProfileArgs(raw, name) ==
    [username |-> name,
     full_name |-> Or(Get(raw, "profile_name"), Get(raw, "full_name")),
     bio |-> Get(raw, "biography"),
     followers |-> IntField(Get(raw, "followers")),
     following |-> IntField(Get(raw, "following")),
     posts_count |-> IntField(Get(raw, "posts_count")),
     is_verified |-> BoolField(GetDefault(raw, "is_verified", PyFalse)),
     is_business |->
         BoolField(Or(Or(Get(raw, "is_business_account"),
                         Get(raw, "is_professional_account")), PyFalse)),
     profile_url |-> UrlField(Or(Get(raw, "profile_url"), Get(raw, "url"))),
     raw |-> raw]

\* brightdata.py:50-65, with username = raw_profile.get("account") or username
BuildProfileRequestedName(raw, requested) == ProfileArgs(raw, requested)
BuildProfile(raw, requested) ==
    ProfileArgs(raw, Or(Get(raw, "account"), requested))

\* models/instagram.py:5-15, the validation of the arguments
ProfileValid(p) ==
    /\ p.followers.ok /\ p.following.ok /\ p.posts_count.ok
    /\ p.is_verified.ok /\ p.is_business.ok
    /\ p.profile_url.ok

ProfileResult(p) ==
    [kind |-> "profile", exc |-> "", err |-> "", data |-> NoData,
     status |-> None, profile |-> p]

----------------------------------------------------------------------------
(* The call.                                                                *)

\* no second call
NoFrame == [pc |-> "none"]

Init ==
    /\ settings \in SettingsSet
    /\ username \in Usernames
    /\ pc = "start"
    /\ session = "none"
    /\ resp = NoResp
    /\ snapshot_id = None
    /\ attempt = 0
    /\ last_status = None
    /\ raw_profile = NoData
    /\ result = NoResult
    /\ route = "none"
    /\ log = <<>>
    /\ polls = <<>>
    /\ other = NoFrame
    /\ me = 1

\* An exception leaves the `async with` block of brightdata.py:45-48: the
\* client is closed on the way out, every frame is dropped and the exception
\* reaches the caller of fetch_instagram_profile.  lg is the history so far.
\* pl is the history of polled statuses so far.
RaiseLeavingOpen(e, lg, pl) ==
    /\ result' = e
    /\ log' = lg
    /\ polls' = pl
    /\ pc' = "returned"
    /\ resp' = NoResp
    /\ snapshot_id' = None
    /\ attempt' = 0
    /\ last_status' = None
    /\ UNCHANGED <<settings, other, me, username, session, raw_profile, route>>
RaiseWith(e, lg, pl) ==
    /\ result' = e
    /\ session' = "closed"
    /\ log' = Append(lg, EvClose)
    /\ polls' = pl
    /\ pc' = "returned"
    /\ resp' = NoResp
    /\ snapshot_id' = None
    /\ attempt' = 0
    /\ last_status' = None
    /\ UNCHANGED <<settings, other, me, username, raw_profile, route>>

Raise(e, lg) == RaiseWith(e, lg, polls)

\* routes/instagram.py:18 calls fetch_instagram_profile; brightdata.py:32-45
Start ==
    /\ pc = "start"
    /\ IF NotConfigured(settings)
       THEN /\ result' = BDError("NotConfigured", NoData, None)
            /\ pc' = "returned"
            /\ UNCHANGED <<session, log>>
       ELSE /\ session' = "open"
            /\ log' = Append(log, EvOpen)
            /\ pc' = "trigger_post"
            /\ UNCHANGED result
    /\ UNCHANGED <<settings, other, me, username, resp, snapshot_id, attempt, last_status,
                   raw_profile, route, polls>>

\* brightdata.py:91-102, the trigger request and its response
TriggerPostFrom(answers) ==
    /\ pc = "trigger_post"
    /\ LET lg == Append(log, EvTrigger(Headers(settings)))
       IN  \/ Raise(Other("httpx.RequestError"), lg)
           \/ /\ resp' \in answers
              /\ log' = lg
              /\ pc' = "trigger_parse"
              /\ UNCHANGED <<settings, other, me, username, session, snapshot_id, attempt,
                             last_status, raw_profile, result, route, polls>>

TriggerPost == TriggerPostFrom(TriggerResponses)

\* brightdata.py:103-118
TriggerParse ==
    /\ pc = "trigger_parse"
    /\ IF ~IsSuccess(resp.code)
       THEN Raise(BDError("TriggerError", NoData, None), log)
       ELSE IF resp.body.shape = "badjson"
       THEN Raise(Other("JSONDecodeError"), log)
       ELSE IF ~IsDict(resp.body)
       THEN Raise(Other("AttributeError"), log)
       ELSE IF ~Truthy(TriggerId(resp.body))
       THEN Raise(BDError("MissingJobId", resp.body, None), log)
       ELSE /\ snapshot_id' = TriggerId(resp.body)
            /\ pc' = "trigger_return"
            /\ UNCHANGED <<settings, other, me, username, session, resp, attempt,
                           last_status, raw_profile, result, route, log, polls>>

\* brightdata.py:119 returns the id to brightdata.py:46; brightdata.py:47
\* enters _wait_for_snapshot_ready, brightdata.py:139-150
TriggerReturn ==
    /\ pc = "trigger_return"
    /\ IF settings.brightdata_poll_interval = 0
       THEN Raise(Other("ZeroDivisionError"), log)
       ELSE /\ pc' = "wait_loop"
            /\ attempt' = 1
            /\ last_status' = None
            /\ resp' = NoResp
            /\ UNCHANGED <<settings, other, me, username, session, snapshot_id,
                           raw_profile, result, route, log, polls>>

\* brightdata.py:185-188, the loop of brightdata.py:152 is exhausted
WaitTimeout ==
    /\ pc = "wait_loop"
    /\ attempt > MaxAttempts(settings)
    /\ Raise(BDError("Timeout", NoData, last_status), log)

\* brightdata.py:152-163, one pass of the loop up to the progress response
ProgressGetFrom(answers) ==
    /\ pc = "wait_loop"
    /\ attempt <= MaxAttempts(settings)
    /\ LET slept == IF attempt > 1
                    THEN Append(log, EvSleep(settings.brightdata_poll_interval))
                    ELSE log
           lg == Append(slept, EvProgress(snapshot_id, Headers(settings)))
       IN  \/ Raise(Other("httpx.RequestError"), lg)
           \/ /\ resp' \in answers
              /\ log' = lg
              /\ pc' = "wait_parse"
              /\ UNCHANGED <<settings, other, me, username, session, snapshot_id, attempt,
                             last_status, raw_profile, result, route, polls>>

ProgressGet == ProgressGetFrom(ProgressResponses)

\* brightdata.py:164-183, the rest of the pass
ProgressParse ==
    /\ pc = "wait_parse"
    /\ IF ~IsSuccess(resp.code)
       THEN Raise(BDError("ProgressError", NoData, None), log)
       ELSE IF resp.body.shape = "badjson"
       THEN Raise(Other("JSONDecodeError"), log)
       ELSE IF IsNonEmptyList(resp.body) \/ resp.body.shape = "scalar"
       THEN Raise(Other("AttributeError"), log)
       ELSE LET status == ProgressStatus(resp.body)
            IN  IF status \in ReadyStatuses
                THEN \* return; brightdata.py:48 enters _fetch_snapshot_profile
                     /\ polls' = Append(polls, status)
                     /\ pc' = "fetch_loop"
                     /\ attempt' = 1
                     /\ last_status' = None
                     /\ resp' = NoResp
                     /\ UNCHANGED <<settings, other, me, username, session, snapshot_id,
                                    raw_profile, result, route, log>>
                ELSE IF status \in FailedStatuses
                THEN RaiseWith(BDError("JobFailed", resp.body, status), log,
                               Append(polls, status))
                ELSE /\ polls' = Append(polls, status)
                     /\ last_status' = status
                     /\ attempt' = attempt + 1
                     /\ pc' = "wait_loop"
                     /\ resp' = NoResp
                     /\ UNCHANGED <<settings, other, me, username, session,
                                    snapshot_id, raw_profile, result, route, log>>

\* brightdata.py:278-280, the loop of brightdata.py:216 is exhausted
FetchExhausted ==
    /\ pc = "fetch_loop"
    /\ attempt > FetchMaxAttempts
    /\ Raise(BDError("SnapshotNotReady", NoData, None), log)

\* brightdata.py:216-224, one pass of the loop up to the snapshot response
SnapshotGetFrom(answers) ==
    /\ pc = "fetch_loop"
    /\ attempt <= FetchMaxAttempts
    /\ LET lg == Append(log, EvSnapshot(snapshot_id, Headers(settings)))
       IN  \/ Raise(Other("httpx.RequestError"), lg)
           \/ /\ resp' \in answers
              /\ log' = lg
              /\ pc' = "fetch_parse"
              /\ UNCHANGED <<settings, other, me, username, session, snapshot_id, attempt,
                             last_status, raw_profile, result, route, polls>>

SnapshotGet == SnapshotGetFrom(SnapshotResponses)

\* brightdata.py:275-276, the sleep that ends a pass that neither returned
\* nor raised
SleepAfterAlways(n) == Append(log, EvSleep(settings.brightdata_poll_interval))
SleepAfter(n) ==
    IF n < FetchMaxAttempts
    THEN Append(log, EvSleep(settings.brightdata_poll_interval))
    ELSE log

\* brightdata.py:226-276, the rest of the pass; a returned record leaves the
\* `async with` block of brightdata.py:45-48, which closes the client
SnapshotParse ==
    /\ pc = "fetch_parse"
    /\ LET step == FetchStep(resp)
       IN  IF step.do = "raise" THEN Raise(step.e, log)
           ELSE IF step.do = "return"
           THEN /\ raw_profile' = step.rec
                /\ session' = "closed"
                /\ log' = Append(log, EvClose)
                /\ pc' = "normalize"
                /\ resp' = NoResp
                /\ snapshot_id' = None
                /\ attempt' = 0
                /\ UNCHANGED <<settings, other, me, username, last_status, result, route,
                               polls>>
           ELSE /\ log' = SleepAfter(attempt)
                /\ attempt' = attempt + 1
                /\ pc' = "fetch_loop"
                /\ resp' = NoResp
                /\ UNCHANGED <<settings, other, me, username, session, snapshot_id,
                               last_status, raw_profile, result, route, polls>>

\* brightdata.py:50-68
Normalize ==
    /\ pc = "normalize"
    /\ LET p == BuildProfile(raw_profile, username)
       IN  result' = IF ProfileValid(p) THEN ProfileResult(p)
                     ELSE Other("ValidationError")
    /\ pc' = "returned"
    /\ raw_profile' = NoData
    /\ UNCHANGED <<settings, other, me, username, session, resp, snapshot_id, attempt,
                   last_status, route, log, polls>>

\* routes/instagram.py:17-25: a BrightDataError becomes HTTP 502, a profile
\* goes on to analyze_profile, any other exception leaves the handler
RouteOutcome(r) ==
    IF r.kind = "error"
    THEN IF r.exc = "BrightDataError" THEN "502" ELSE "unhandled"
    ELSE "analyze"

Route ==
    /\ pc = "returned"
    /\ route' = RouteOutcome(result)
    /\ pc' = "done"
    /\ UNCHANGED <<settings, other, me, username, session, resp, snapshot_id, attempt,
                   last_status, raw_profile, result, log, polls>>

Next ==
    \/ Start
    \/ TriggerPost
    \/ TriggerParse
    \/ TriggerReturn
    \/ WaitTimeout
    \/ ProgressGet
    \/ ProgressParse
    \/ FetchExhausted
    \/ SnapshotGet
    \/ SnapshotParse
    \/ Normalize
    \/ Route

Spec == Init /\ [][Next]_vars

----------------------------------------------------------------------------
(* Two calls of the route as tasks of one event loop.  The variables hold   *)
(* the locals of the task that runs, `other` those of the suspended one;    *)
(* the module-level settings of brightdata.py:11 are the same object for    *)
(* both.  The provider answers each trigger with a job id of its own.       *)

\* the locals of the running call: brightdata.py:20-65 and the helpers' frames
Frame ==
    [username |-> username, pc |-> pc, session |-> session, resp |-> resp,
     snapshot_id |-> snapshot_id, attempt |-> attempt,
     last_status |-> last_status, raw_profile |-> raw_profile,
     result |-> result, route |-> route, log |-> log, polls |-> polls]

\* a call that has not started
NewFrame(name) ==
    [username |-> name, pc |-> "start", session |-> "none", resp |-> NoResp,
     snapshot_id |-> None, attempt |-> 0, last_status |-> None,
     raw_profile |-> NoData, result |-> NoResult, route |-> "none",
     log |-> <<>>, polls |-> <<>>]

\* the job id the provider gives to the trigger of call c
JobOf(c) == IF c = 1 THEN "sd_1" ELSE "sd_2"

PairSettings ==
    {s \in SettingsSet :
        /\ s.brightdata_api_token = "tok"
        /\ s.brightdata_instagram_dataset_id = "ds"
        /\ s.brightdata_poll_interval = 1
        /\ s.brightdata_max_wait_time \in {0, MaxWait}}

PairTriggerResponses(c) ==
    {Response(200, Body("obj", <<[snapshot_id |-> JobOf(c), snapshot |-> Absent,
                                  id |-> Absent, job_id |-> Absent,
                                  snapshotId |-> Absent]>>)),
     Response(500, BadJson)}

PairProgressResponses ==
    {Response(200, Body("obj", <<[status |-> st, state |-> Absent]>>)) :
        st \in {"building", "ready", "failed"}}

PairSnapshotResponses ==
    {Response(202, BadJson), Response(500, BadJson),
     Response(200, Body("obj", <<RowAlice>>)),
     Response(200, Body("list", <<RowBob, RowAlice>>))}

PairInit ==
    /\ settings \in PairSettings
    /\ username = "ALICE"
    /\ pc = "start"
    /\ session = "none"
    /\ resp = NoResp
    /\ snapshot_id = None
    /\ attempt = 0
    /\ last_status = None
    /\ raw_profile = NoData
    /\ result = NoResult
    /\ route = "none"
    /\ log = <<>>
    /\ polls = <<>>
    /\ other = NewFrame("carol")
    /\ me = 1

\* The event loop suspends the running task and resumes the other one: each
\* coroutine keeps its own locals, the client of brightdata.py:45 among them.
SwitchSharingClient ==
    /\ other.pc # "done"
    /\ me' = 3 - me
    /\ other' = Frame
    /\ username' = other.username
    /\ pc' = other.pc
    /\ session' = IF other.pc = "start" THEN session ELSE other.session
    /\ resp' = other.resp
    /\ snapshot_id' = other.snapshot_id
    /\ attempt' = other.attempt
    /\ last_status' = other.last_status
    /\ raw_profile' = other.raw_profile
    /\ result' = other.result
    /\ route' = other.route
    /\ log' = other.log
    /\ polls' = other.polls
    /\ UNCHANGED settings
Switch ==
    /\ other.pc # "done"
    /\ me' = 3 - me
    /\ other' = Frame
    /\ username' = other.username
    /\ pc' = other.pc
    /\ session' = other.session
    /\ resp' = other.resp
    /\ snapshot_id' = other.snapshot_id
    /\ attempt' = other.attempt
    /\ last_status' = other.last_status
    /\ raw_profile' = other.raw_profile
    /\ result' = other.result
    /\ route' = other.route
    /\ log' = other.log
    /\ polls' = other.polls
    /\ UNCHANGED settings

PairTriggerPost == TriggerPostFrom(PairTriggerResponses(me))
PairProgressGet == ProgressGetFrom(PairProgressResponses)
PairSnapshotGet == SnapshotGetFrom(PairSnapshotResponses)

PairNext ==
    \/ Switch
    \/ Start
    \/ PairTriggerPost
    \/ TriggerParse
    \/ TriggerReturn
    \/ WaitTimeout
    \/ PairProgressGet
    \/ ProgressParse
    \/ FetchExhausted
    \/ PairSnapshotGet
    \/ SnapshotParse
    \/ Normalize
    \/ Route

SpecPair == PairInit /\ [][PairNext]_vars

----------------------------------------------------------------------------
(* Reading the history.                                                     *)

Positions(ev) == {i \in 1..Len(log) : log[i].ev = ev}
IsRequest(e) == e.ev \in {"trigger", "progress", "snapshot"}
Ended == pc \in {"returned", "done"}
\* _wait_for_snapshot_ready has returned normally
WaitReturned == pc = "fetch_loop" \/ Positions("snapshot") # {}
\* the sleeps of the polling loop: those before the first snapshot request
WaitSleeps ==
    {i \in Positions("sleep") : \A j \in Positions("snapshot") : i < j}
FetchSleeps == Positions("sleep") \ WaitSleeps
Configured ==
    /\ settings.brightdata_api_token \notin {None, ""}
    /\ settings.brightdata_instagram_dataset_id \notin {None, ""}

----------------------------------------------------------------------------
(* C1                                                                       *)

\* the status a poll shows: `status`, or `state` when `status` is missing or empty
ShownStatus(o) ==
    IF o.status \notin {Absent, Null, ""} THEN o.status
    ELSE IF o.state \in {Absent, Null} THEN None ELSE o.state

C1_Polls ==
    LET n == Len(polls)
        ready == {"ready", "completed", "done"}
        failed == {"failed", "error"}
    IN  /\ \A i \in 1..n : i < n => polls[i] \notin ready \cup failed
        /\ (n > 0 /\ polls[n] \in ready) <=> WaitReturned
        /\ (n > 0 /\ polls[n] \in failed) <=>
               (result.err = "JobFailed" /\ result.exc = "BrightDataError")
        /\ (n > 0 /\ polls[n] \in ready \cup failed) =>
               Cardinality(Positions("progress")) = n
        /\ result.err = "Timeout" =>
               /\ result.exc = "BrightDataError"
               /\ n = settings.brightdata_max_wait_time
                          \div settings.brightdata_poll_interval
               /\ Cardinality(Positions("progress")) = n
               /\ \A i \in 1..n : polls[i] \notin ready \cup failed
        /\ pc \in {"wait_loop", "wait_parse"} =>
               /\ n = attempt - 1
               /\ \A i \in 1..n : polls[i] \notin ready \cup failed
               /\ n <= settings.brightdata_max_wait_time
                           \div settings.brightdata_poll_interval
               /\ pc = "wait_parse" =>
                      n < settings.brightdata_max_wait_time
                              \div settings.brightdata_poll_interval

\* the budget is used up: the next step is the timeout error, not a poll
C1_Budget ==
    (/\ pc = "wait_loop"
     /\ Len(polls) = settings.brightdata_max_wait_time
                         \div settings.brightdata_poll_interval) =>
        /\ pc' = "returned"
        /\ result'.exc = "BrightDataError"
        /\ result'.err = "Timeout"
        /\ Positions("progress")' = Positions("progress")

C1_Poll ==
    (pc = "wait_parse" /\ resp.code = 200 /\ resp.body.shape = "obj") =>
        LET st == ShownStatus(resp.body.items[1])
        IN  /\ polls' = Append(polls, st)
            /\ st \in {"ready", "completed", "done"} =>
                   pc' = "fetch_loop" /\ result' = result
            /\ st \in {"failed", "error"} =>
                   /\ pc' = "returned"
                   /\ result'.err = "JobFailed"
                   /\ result'.status = st
            /\ st \notin {"ready", "completed", "done", "failed", "error"} =>
                   /\ pc' = "wait_loop"
                   /\ attempt' = attempt + 1
                   /\ last_status' = st
                   /\ result' = result

\* C1: in _wait_for_snapshot_ready every poll that shows ready/completed/done
\* returns without error at that poll, every poll that shows failed/error
\* raises the job-failed error at that poll, every other status (a missing
\* one too) goes to the next poll, max_wait // interval polls of that kind end
\* in the timeout error, and no poll follows a terminal status.
C1_WaitOutcome == []C1_Polls /\ [][C1_Poll /\ C1_Budget]_vars

\* three polls: no status, then building, then done; the wait has returned
C1_Witness ==
    /\ pc = "fetch_loop"
    /\ polls = <<None, "building", "done">>

----------------------------------------------------------------------------
(* C2                                                                       *)

C2_Order ==
    /\ Cardinality(Positions("trigger")) <= 1
    /\ \A i \in Positions("progress") :
           /\ \E j \in Positions("trigger") : j < i
           /\ log[i].id \in {"sd_1", "sd_2"}
           /\ \A j \in Positions("snapshot") : i < j
    /\ Positions("snapshot") # {} =>
           /\ polls # <<>>
           /\ polls[Len(polls)] \in {"ready", "completed", "done"}
           /\ Cardinality(Positions("progress")) = Len(polls)
    /\ \A i \in Positions("snapshot") : log[i].id \in {"sd_1", "sd_2"}
    /\ result.kind \in {"none", "profile", "error"}
    /\ result.kind = "none" <=> ~Ended
    /\ result.kind = "error" =>
           /\ "profile" \notin DOMAIN result
           /\ log = <<>> \/ log[Len(log)].ev = "close"
    /\ result.kind = "profile" =>
           /\ result.exc = "" /\ result.err = ""
           /\ Positions("snapshot") # {}
           /\ log[Len(log)].ev = "close"
           /\ result.profile.followers.ok
           /\ ProfileValid(result.profile)
           /\ DOMAIN result.profile =
                  {"username", "full_name", "bio", "followers", "following",
                   "posts_count", "is_verified", "is_business", "profile_url",
                   "raw"}

C2_Final == result.kind # "none" => (log' = log /\ result' = result)

\* C2: fetch_instagram_profile runs trigger, wait, fetch, normalize in that
\* order: a progress request only after the trigger returned an id, a snapshot
\* request only after the wait saw a terminal-success status, nothing is sent
\* once a step has failed, and the call ends in a Profile or in an error.
C2_Sequencing == []C2_Order /\ [][C2_Final]_vars

\* a poll that was pending, then ready, then a snapshot request that failed
C2_Witness ==
    /\ Ended
    /\ result.err = "FetchError"
    /\ Len(polls) = 2
    /\ Cardinality(Positions("snapshot")) = 1

----------------------------------------------------------------------------
(* C3                                                                       *)

\* C3: every failure inside fetch_instagram_profile reaches the caller as
\* BrightDataError and the route answers it with HTTP 502.
C3_AllFailuresTyped ==
    result.kind = "error" =>
        /\ result.exc = "BrightDataError"
        /\ pc = "done" => route = "502"

----------------------------------------------------------------------------
(* C4                                                                       *)

\* C4: with the API token or the dataset id missing or empty the call fails
\* with the not-configured error, opens no client and sends no request.
C4_NotConfigured ==
    (\/ settings.brightdata_api_token \in {None, ""}
     \/ settings.brightdata_instagram_dataset_id \in {None, ""}) =>
        /\ log = <<>>
        /\ session = "none"
        /\ pc # "start" =>
               /\ Ended
               /\ result.exc = "BrightDataError"
               /\ result.err = "NotConfigured"

\* the token is set, the dataset id is empty, the call has ended
C4_Witness ==
    /\ pc = "done"
    /\ settings.brightdata_api_token = "tok"
    /\ settings.brightdata_instagram_dataset_id = ""
    /\ result.err = "NotConfigured"
    /\ log = <<>>

----------------------------------------------------------------------------
(* C5                                                                       *)

\* the id the claim expects: the first of the five keys that holds a value,
\* in the object or in the single element of a one-element list
C5_ClaimedId(data) ==
    LET o == data.items[1]
        hit == {i \in 1..Len(TriggerKeys) :
                    o[TriggerKeys[i]] \notin {Absent, Null, ""}}
    IN  IF hit = {} THEN None
        ELSE o[TriggerKeys[CHOOSE i \in hit : \A j \in hit : i <= j]]

----------------------------------------------------------------------------
(* C6                                                                       *)

C6_NoRequests ==
    result.err = "MissingJobId" =>
        /\ result.exc = "BrightDataError"
        /\ Ended
        /\ result.data.shape = "obj"
        /\ result.data.items[1].snapshot_id \in {Absent, Null, ""}
        /\ Positions("progress") = {}
        /\ Positions("snapshot") = {}
        /\ Cardinality(Positions("trigger")) = 1

C6_Fails ==
    (/\ pc = "trigger_parse"
     /\ resp.code = 200
     /\ resp.body.shape = "obj"
     /\ resp.body.items[1].snapshot_id \in {Absent, Null, ""}) =>
        /\ pc' = "returned"
        /\ result'.exc = "BrightDataError"
        /\ result'.err = "MissingJobId"
        /\ result'.data = resp.body
        /\ log' = Append(log, EvClose)

C6_Stays == result.err = "MissingJobId" => (log' = log /\ result' = result)

----------------------------------------------------------------------------
(* C7                                                                       *)

\* C7: the polling loop sends at most max_wait // interval progress requests,
\* the first without a sleep before it and every later one after exactly one
\* sleep of one interval, so k polls come with k - 1 sleeps.
C7_PollBudget ==
    LET P == Positions("progress")
        interval == settings.brightdata_poll_interval
        budget == IF interval > 0
                  THEN settings.brightdata_max_wait_time \div interval
                  ELSE 0
    IN  /\ Cardinality(P) <= budget
        /\ \A i \in P :
               IF \A j \in P : i <= j
               THEN i > 1 /\ log[i - 1].ev = "trigger"
               ELSE /\ i > 2
                    /\ log[i - 1].ev = "sleep"
                    /\ log[i - 1].dur = interval
                    /\ log[i - 2].ev = "progress"
        /\ \A i \in WaitSleeps :
               /\ log[i].dur = interval
               /\ i < Len(log)
               /\ log[i + 1].ev = "progress"
        /\ IF P = {} THEN WaitSleeps = {}
           ELSE Cardinality(WaitSleeps) = Cardinality(P) - 1

\* three polls and two sleeps
C7_Witness ==
    /\ Ended
    /\ Cardinality(Positions("progress")) = 3
    /\ Cardinality(WaitSleeps) = 2

----------------------------------------------------------------------------
(* C8                                                                       *)

\* the response says the snapshot is not ready: HTTP 202, or an object whose
\* status is building or whose message holds the not-ready phrase
C8_NotReady(r) ==
    \/ r.code = 202
    \/ /\ r.code = 200
       /\ r.body.shape = "obj"
       /\ \/ r.body.items[1].status = "building"
          \/ r.body.items[1].message = MsgNotReady

C8_ReadyPayload(r) ==
    /\ r.code = 200
    /\ \/ r.body.shape = "list" /\ Len(r.body.items) > 0
       \/ /\ r.body.shape = "obj"
          /\ ~C8_NotReady(r)
          /\ \E k \in {"account", "profile_name", "full_name"} :
                 r.body.items[1][k] \notin {Absent, Null, ""}

C8_Log ==
    LET S == Positions("snapshot")
    IN  /\ Cardinality(S) <= 5
        /\ Cardinality(FetchSleeps) <= 4
        /\ \A i \in S :
               IF \A j \in S : i <= j
               THEN log[i - 1].ev = "progress"
               ELSE /\ log[i - 1].ev = "sleep"
                    /\ log[i - 1].dur = settings.brightdata_poll_interval
                    /\ log[i - 2].ev = "snapshot"
        /\ \A i \in FetchSleeps :
               /\ log[i - 1].ev = "snapshot"
               /\ IF i < Len(log) THEN log[i + 1].ev = "snapshot"
                  ELSE pc = "fetch_loop"
        /\ result.err = "SnapshotNotReady" =>
               /\ result.exc = "BrightDataError"
               /\ Cardinality(S) = 5
               /\ Cardinality(FetchSleeps) = 4
               /\ log[Len(log)].ev = "close"
               /\ log[Len(log) - 1].ev = "snapshot"

C8_Pass ==
    pc = "fetch_parse" =>
        /\ attempt = Cardinality(Positions("snapshot"))
        /\ C8_NotReady(resp) =>
               /\ pc' = "fetch_loop"
               /\ attempt' = attempt + 1
               /\ result' = result
               /\ log' = IF attempt < 5
                         THEN Append(log, EvSleep(settings.brightdata_poll_interval))
                         ELSE log
        /\ C8_ReadyPayload(resp) =>
               /\ pc' = "normalize"
               /\ raw_profile' = resp.body.items[1]
               /\ log' = Append(log, EvClose)

C8_Exhausted ==
    (pc = "fetch_loop" /\ Cardinality(Positions("snapshot")) = 5) =>
        /\ pc' = "returned"
        /\ result'.err = "SnapshotNotReady"
        /\ log' = Append(log, EvClose)

\* C8: _fetch_snapshot_profile sends at most 5 snapshot requests; a 202 or a
\* still-building body is followed by one sleep of one interval and the next
\* attempt, five of them by the snapshot-not-ready error with no sleep after
\* the fifth; a ready payload at attempt n ends the loop at attempt n.
C8_FetchRetries == []C8_Log /\ [][C8_Pass /\ C8_Exhausted]_vars

\* five snapshot requests, four sleeps, then the error
C8_Witness ==
    /\ Ended
    /\ result.err = "SnapshotNotReady"
    /\ Cardinality(Positions("snapshot")) = 5
    /\ Cardinality(FetchSleeps) = 4

----------------------------------------------------------------------------
(* C9                                                                       *)

\* C9: a call that passes the configuration check opens one client, sends
\* every request while it is open, and has closed it when the call ends,
\* whichever way it ends.
C9_SessionScope ==
    LET O == Positions("open")
        C == Positions("close")
    IN  /\ Cardinality(O) <= 1
        /\ Cardinality(C) <= 1
        /\ (Configured /\ pc # "start") => (O = {1})
        /\ ~Configured => O = {}
        /\ \A i \in 1..Len(log) :
               IsRequest(log[i]) =>
                   /\ \E j \in O : j < i
                   /\ \A k \in C : i < k
        /\ session = "open" <=> (O # {} /\ C = {})
        /\ session = "closed" <=> C # {}
        /\ (Ended \/ pc = "normalize") =>
               /\ session # "open"
               /\ O # {} => (session = "closed" /\ C = {Len(log)})

\* the call ended in the polling timeout and the client is closed
C9_Witness ==
    /\ pc = "done"
    /\ result.err = "Timeout"
    /\ Cardinality(Positions("progress")) = 2
    /\ session = "closed"

----------------------------------------------------------------------------
(* C10                                                                      *)

C10_Marker(o) == o.status = "building" \/ o.message = MsgNotReady
C10_Indicated(o) ==
    \E k \in {"account", "profile_name", "full_name"} :
        o[k] \notin {Absent, Null, ""}

C10_Object ==
    (/\ pc = "fetch_parse"
     /\ resp.code = 200
     /\ resp.body.shape = "obj") =>
        LET o == resp.body.items[1]
        IN  /\ (~C10_Marker(o) /\ ~C10_Indicated(o)) <=>
                   (result'.err = "UnexpectedPayload")
            /\ result'.err = "UnexpectedPayload" =>
                   /\ pc' = "returned"
                   /\ result'.exc = "BrightDataError"
                   /\ result'.data = resp.body
                   /\ Positions("snapshot")' = Positions("snapshot")
            /\ (~C10_Marker(o) /\ C10_Indicated(o)) =>
                   /\ pc' = "normalize"
                   /\ raw_profile' = o
                   /\ result' = result

C10_Only ==
    result.err = "UnexpectedPayload" =>
        /\ result.data.shape = "obj"
        /\ ~C10_Marker(result.data.items[1])
        /\ ~C10_Indicated(result.data.items[1])

\* C10: a snapshot response that is a JSON object fails with the
\* unexpected-payload error, at once, exactly when it is no building marker
\* and holds no non-empty account, profile_name or full_name; an object that
\* holds one and is no building marker is returned as the record.
C10_UnexpectedPayload == []C10_Only /\ [][C10_Object]_vars

\* an object whose only indicator field is an empty account was rejected
\* at the second attempt
C10_Witness ==
    /\ Ended
    /\ result.err = "UnexpectedPayload"
    /\ result.data.items[1].account = ""
    /\ Cardinality(Positions("snapshot")) = 2

----------------------------------------------------------------------------
(* C11                                                                      *)

C11_Selected ==
    (pc = "fetch_parse" /\ pc' = "normalize") =>
        /\ resp.body.shape \in {"obj", "list"}
        /\ raw_profile' = resp.body.items[1]

C11_Built ==
    (pc = "normalize" /\ result'.kind = "profile") =>
        /\ result'.profile.raw = raw_profile
        /\ result'.profile.username =
               IF raw_profile.account \in {Absent, Null, ""}
               THEN username ELSE raw_profile.account

C11_Kept ==
    result.kind = "profile" =>
        /\ result.profile.raw \in SnapshotObjs \cup TypedObjs \cup {RowAlice, RowBob}
        /\ result.profile.username =
               IF result.profile.raw.account \in {Absent, Null, ""}
               THEN username ELSE result.profile.raw.account

\* C11: a returned Profile carries in raw, unchanged, the record the fetch
\* step selected (the first element of a list, or the object), and its
\* username is the record's account, or the requested username when the
\* record has none.
C11_RawAndUsername == []C11_Kept /\ [][C11_Selected /\ C11_Built]_vars

\* a record with an empty account and no followers, requested as carol
C11_Witness ==
    /\ result.kind = "profile"
    /\ username = "carol"
    /\ result.profile.username = "carol"
    /\ result.profile.raw.account = ""
    /\ result.profile.raw.profile_name = "Alice"
    /\ result.profile.followers.null

----------------------------------------------------------------------------
(* C12                                                                      *)

\* the row the claim expects: the first whose account equals the requested
\* username without regard to case, or the first row when none does
C12_ClaimedRow(items, requested) ==
    LET hit == {i \in 1..Len(items) :
                    LowerWord(items[i].account) = LowerWord(requested)}
    IN  IF hit = {} THEN items[1]
        ELSE items[CHOOSE i \in hit : \A j \in hit : i <= j]

\* C12 as stated: of several records the one whose username matches the
\* requested one, whatever the case, is selected; the first one only when
\* none matches.
C12_MatchingRow ==
    [][(/\ pc = "fetch_parse"
        /\ resp.code = 200
        /\ resp.body.shape = "list"
        /\ Len(resp.body.items) > 0) =>
           /\ pc' = "normalize"
           /\ raw_profile' = C12_ClaimedRow(resp.body.items, username)]_vars

----------------------------------------------------------------------------
(* C13                                                                      *)

\* the number the claim expects of a record value
C13_Coerced(v) ==
    IF v \in {"42", "42.0"} THEN [ok |-> TRUE, null |-> FALSE, n |-> 42]
    ELSE IF v = "100" THEN [ok |-> TRUE, null |-> FALSE, n |-> 100]
    ELSE [ok |-> TRUE, null |-> TRUE, n |-> 0]

\* C13: whatever followers, following and posts_count hold, the call returns
\* a Profile: a value that is no number gives a null field, "42" and "42.0"
\* give 42.
C13_IntegersNeverFail ==
    [][(/\ pc = "normalize"
        /\ \A k \in {"is_verified", "is_business_account",
                     "is_professional_account", "profile_url", "url"} :
               raw_profile[k] = Absent) =>
           /\ result'.kind = "profile"
           /\ \A k \in {"followers", "following", "posts_count"} :
                  result'.profile[k] = C13_Coerced(raw_profile[k])]_vars

----------------------------------------------------------------------------
(* C14                                                                      *)

\* C14: in a returned Profile is_verified and is_business are never null,
\* false when the record has no value for them, true only for a true-like one.
C14_BooleansNeverNull ==
    result.kind = "profile" =>
        LET p == result.profile
            nothing == {Absent, Null}
            truelike == {PyTrue, "true", "YES"}
        IN  /\ ~p.is_verified.null
            /\ ~p.is_business.null
            /\ p.raw.is_verified \in nothing => ~p.is_verified.b
            /\ (/\ p.raw.is_business_account \in nothing
                /\ p.raw.is_professional_account \in nothing) => ~p.is_business.b
            /\ p.is_verified.b => p.raw.is_verified \in truelike
            /\ p.is_business.b =>
                   \/ p.raw.is_business_account \in truelike
                   \/ p.raw.is_professional_account \in truelike

----------------------------------------------------------------------------
(* C16                                                                      *)

\* C16: every request sent to the provider, the trigger POST, each progress
\* GET and each snapshot GET, carries the Authorization header "Bearer" with
\* the configured token.
C16_BearerOnEveryRequest ==
    \A i \in 1..Len(log) :
        IsRequest(log[i]) =>
            /\ settings.brightdata_api_token # ""
            /\ log[i].auth = <<"Bearer", settings.brightdata_api_token>>

\* a finished call that sent requests of the three kinds
C16_Witness ==
    /\ Ended
    /\ Positions("trigger") # {}
    /\ Cardinality(Positions("progress")) > 1
    /\ Cardinality(Positions("snapshot")) > 1

----------------------------------------------------------------------------
(* C17                                                                      *)

C17_Requests ==
    /\ Cardinality(Positions("trigger")) <= 1
    /\ settings.brightdata_poll_interval = 0 => Positions("progress") = {}
    /\ settings.brightdata_poll_interval > 0 =>
           Cardinality(Positions("progress")) <=
               settings.brightdata_max_wait_time \div settings.brightdata_poll_interval
    /\ Cardinality(Positions("snapshot")) <= 5

\* the number of steps the call has left at most: 2 per pass of a loop
C17_Rank ==
    LET budget == IF settings.brightdata_poll_interval = 0 THEN 0
                  ELSE settings.brightdata_max_wait_time
                           \div settings.brightdata_poll_interval
        fetch == 2 * (5 + 1 - attempt) + 3
        wait == 2 * (budget + 1 - attempt) + 2 * 5 + 4
    IN  CASE pc = "done" -> 0
          [] pc = "returned" -> 1
          [] pc = "normalize" -> 2
          [] pc = "fetch_parse" -> fetch - 1
          [] pc = "fetch_loop" -> fetch
          [] pc = "wait_parse" -> wait - 1
          [] pc = "wait_loop" -> wait
          [] pc = "trigger_return" -> 2 * budget + 2 * 5 + 5
          [] pc = "trigger_parse" -> 2 * budget + 2 * 5 + 6
          [] pc = "trigger_post" -> 2 * budget + 2 * 5 + 7
          [] pc = "start" -> 2 * budget + 2 * 5 + 8

C17_Progresses == pc = "done" \/ ENABLED Next

\* C17: when every request and every sleep completes, the call ends, with a
\* Profile or an error, having sent at most 1 trigger request,
\* max_wait // interval progress requests and 5 snapshot requests, whatever
\* the provider answers: until it has ended a next step is always possible,
\* and every step lowers the number of steps left, which is never negative.
C17_Terminates ==
    /\ [](C17_Requests /\ C17_Progresses /\ C17_Rank >= 0)
    /\ [][C17_Rank' < C17_Rank]_vars

\* a call that ended after using up the 5 snapshot requests
C17_Witness ==
    /\ Ended
    /\ Cardinality(Positions("trigger")) = 1
    /\ Cardinality(Positions("progress")) >= 2
    /\ Cardinality(Positions("snapshot")) = 5

----------------------------------------------------------------------------
(* C18                                                                      *)

C18_NoBudget ==
    settings.brightdata_max_wait_time < settings.brightdata_poll_interval

\* with no attempt in the budget the wait ends at once, nothing requested
C18_AtOnce ==
    (pc = "wait_loop" /\ C18_NoBudget) =>
        /\ attempt = 1
        /\ pc' = "returned"
        /\ result'.kind = "error"
        /\ result'.exc = "BrightDataError"
        /\ result'.err = "Timeout"
        /\ result'.status = None
        /\ Positions("progress") = {}
        /\ log' = Append(log, EvClose)

C18_Reported ==
    (result.kind = "error" /\ result.err = "Timeout") =>
        IF C18_NoBudget
        THEN /\ polls = <<>>
             /\ Positions("progress") = {}
             /\ result.status = None
        ELSE /\ polls # <<>>
             /\ Len(polls) = Cardinality(Positions("progress"))
             /\ result.status = polls[Len(polls)]

\* C18: with max wait time below the poll interval no progress request is
\* sent and the wait fails with the timeout error reporting last status
\* None; with at least one attempt the timeout error reports the status read
\* by the final poll.
C18_TimeoutStatus == []C18_Reported /\ [][C18_AtOnce]_vars

\* a timeout with no progress request sent
C18_Witness ==
    /\ Ended
    /\ C18_NoBudget
    /\ result.kind = "error"
    /\ result.err = "Timeout"
    /\ Positions("trigger") # {}
    /\ Positions("progress") = {}

----------------------------------------------------------------------------
(* C19                                                                      *)

\* a 200 response whose JSON is an empty array, or no array and no object
C19_NotMaterialized(r) ==
    /\ r.code = 200
    /\ r.body \in {EmptyList, JsonNull, JsonScalar}

C19_Retried ==
    (pc = "fetch_parse" /\ C19_NotMaterialized(resp)) =>
        /\ attempt \in 1..5
        /\ attempt' = attempt + 1
        /\ pc' = "fetch_loop"
        /\ result' = result
        /\ raw_profile' = raw_profile
        /\ session' = session
        /\ log' = IF attempt < 5
                  THEN Append(log, EvSleep(settings.brightdata_poll_interval))
                  ELSE log

C19_FirstItem ==
    (pc = "fetch_parse" /\ resp = Response(200, ScalarList)) =>
        /\ pc' = "returned"
        /\ result'.kind = "error"
        /\ result'.exc = "BrightDataError"
        /\ result'.err = "FirstItemNotObject"
        /\ log' = Append(log, EvClose)

\* C19: a 200 snapshot response whose body is an empty array, or neither an
\* array nor an object, uses up one of the 5 attempts and is retried after
\* one interval, giving no record and no unexpected-payload error; a
\* non-empty array whose first element is no object fails the call at once.
C19_EmptyOrInvalid == [][C19_Retried /\ C19_FirstItem]_vars

\* four empty arrays were retried, each after a sleep, and the fifth attempt
\* got an array of strings
C19_Witness ==
    /\ Ended
    /\ result.kind = "error"
    /\ result.err = "FirstItemNotObject"
    /\ Cardinality(Positions("snapshot")) = 5
    /\ Cardinality(FetchSleeps) = 4

----------------------------------------------------------------------------
(* C20                                                                      *)

C20_ProgressStatus ==
    (pc = "wait_parse" /\ resp.code \notin 200..299) =>
        /\ attempt <= settings.brightdata_max_wait_time
                          \div settings.brightdata_poll_interval
        /\ pc' = "returned"
        /\ result'.kind = "error"
        /\ result'.exc = "BrightDataError"
        /\ result'.err = "ProgressError"
        /\ log' = Append(log, EvClose)
        /\ polls' = polls

C20_SnapshotStatus ==
    (pc = "fetch_parse" /\ resp.code \notin (200..299)) =>
        /\ attempt <= 5
        /\ pc' = "returned"
        /\ result'.kind = "error"
        /\ result'.exc = "BrightDataError"
        /\ result'.err = "FetchError"
        /\ log' = Append(log, EvClose)

\* the body of a 202 is no JSON: reading it would raise
C20_Accepted ==
    (pc = "fetch_parse" /\ resp.code = 202) =>
        /\ resp.body = BadJson
        /\ pc' = "fetch_loop"
        /\ attempt' = attempt + 1
        /\ result' = result
        /\ raw_profile' = raw_profile

\* once the call has ended nothing more is requested
C20_Ended == Ended => log' = log

\* C20: a non-2xx status of a progress request, or of a snapshot request
\* other than 202, is not retried: the first one ends the loop with an
\* error, also when attempts remain; the body of a 202 snapshot response is
\* never parsed.
C20_NoRetryOnStatus ==
    [][C20_ProgressStatus /\ C20_SnapshotStatus /\ C20_Accepted /\ C20_Ended]_vars

\* a 202 was retried, the 500 that followed ended the call at attempt 2 of 5
C20_Witness ==
    /\ Ended
    /\ result.kind = "error"
    /\ result.err = "FetchError"
    /\ Cardinality(Positions("snapshot")) = 2
    /\ Cardinality(FetchSleeps) = 1

----------------------------------------------------------------------------
(* C15                                                                      *)

\* the state of a call's client that its own history gives
C15_SessionOf(lg) ==
    IF \A i \in 1..Len(lg) : lg[i] # EvOpen THEN "none"
    ELSE IF \E i \in 1..Len(lg) : lg[i] = EvClose THEN "closed"
    ELSE "open"

\* call c asked for the progress and the snapshot of its own job only, and
\* sent every request between the opening and the closing of its own client
C15_OwnRequests(lg, c) ==
    \A i \in 1..Len(lg) :
        /\ lg[i].ev \in {"progress", "snapshot"} => lg[i].id = JobOf(c)
        /\ IsRequest(lg[i]) =>
               /\ \E j \in 1..(i - 1) : lg[j] = EvOpen
               /\ \A j \in 1..(i - 1) : lg[j] # EvClose

C15_Own ==
    /\ C15_OwnRequests(log, me)
    /\ C15_OwnRequests(other.log, 3 - me)
    /\ session = C15_SessionOf(log)
    /\ other.session = C15_SessionOf(other.log)
    /\ snapshot_id \in {None, JobOf(me)}
    /\ other.snapshot_id \in {None, JobOf(3 - me)}

\* what holds of the outcome of a call that runs alone holds of each of two
C15_AsAlone ==
    /\ C11_Kept
    /\ C16_BearerOnEveryRequest
    /\ C17_Requests
    /\ C18_Reported
    /\ result.kind = "profile" => Positions("snapshot") # {}
    /\ pc = "done" => route = RouteOutcome(result)

\* a step of one call leaves the other call and the settings as they are and
\* sends its requests on its own open client; a switch changes no frame
C15_Isolated ==
    /\ settings' = settings
    /\ me' = me =>
           /\ other' = other
           /\ (\E i \in (Len(log) + 1)..Len(log') : IsRequest(log'[i])) =>
                  session = "open"
    /\ me' # me =>
           /\ other' = Frame
           /\ Frame' = other

\* C15: of two calls interleaved in any way each sends its requests on its
\* own client and asks for its own job id, no step of one call changes what
\* the other call holds or the settings both read, and what holds of the
\* outcome of a single call holds of the outcome of each.
C15_Independent == [](C15_Own /\ C15_AsAlone) /\ [][C15_Isolated]_vars

\* both calls are in flight, each with its client open and its own job
C15_Witness ==
    /\ pc = "fetch_parse"
    /\ other.pc = "wait_parse"
    /\ session = "open"
    /\ other.session = "open"
    /\ snapshot_id = JobOf(me)
    /\ other.snapshot_id = JobOf(3 - me)
    /\ Cardinality(Positions("snapshot")) = 2

====
